---- MODULE Spec2Model ----
(***************************************************************************)
(* Model of the host metrics collector of package metric (HostClient):     *)
(* construction from the process environment, the collection cycle         *)
(* GetHostMetrics over its seven collectors, the CPU delta computation     *)
(* calculateCpuPercent with the retained sample h.lastCPUStats, the        *)
(* network scan with errInterfaceNotFound, GetHostname, and bslog.Warnf.   *)
(*                                                                         *)
(* float64 values are modelled as exact fractions <<num, den>> in lowest   *)
(* terms with den >= 0; den = 0 encodes the IEEE-754 results of a division *)
(* by zero: <<1, 0>> is +Inf, <<-1, 0>> is -Inf and <<0, 0>> is NaN.       *)
(* Rounding of finite quotients is not modelled.                           *)
(***************************************************************************)
EXTENDS Integers, Sequences, FiniteSets, TLC

\* Largest value of one cumulative CPU counter of a platform sample.
MaxTick == 2
\* Largest sum of the counters of one platform sample.
MaxTotal == 2
\* Largest byte counter of a network interface.
MaxBytes == 0

VARIABLES
    env,      \* the process environment read by NewHostClient
    h,        \* the *HostClient returned by NewHostClient, or Nil
    newErr,   \* the error returned by NewHostClient
    pc,       \* "idle", or "GetHostMetrics" while the loop over collectors runs
    i,        \* index of the next collector of the running cycle
    metrics,  \* the local slice metrics of the running cycle
    ret,      \* what the last finished public call returned
    log,      \* lines written to bslog.Logger since the current cycle began
    trace,    \* history: collectors invoked since the current call began, with their results
    listed,   \* history: interface names the last net.NetIOCounters read of the current call listed
    writes,   \* history: assignments to h.lastCPUStats since the current call began
    lastRead, \* history: the last sample cpu.CPUTimes returned without error
    call,     \* history: the last getHostCpuTimes invocation since the current call began
    op        \* history: the operation the last step performed

vars ==
    <<env, h, newErr, pc, i, metrics, ret, log, trace, listed, writes, lastRead, call, op>>

----------------------------------------------------------------------------
(* Values *)

Nil == [nil |-> TRUE]

NoErr == [type |-> "nil", text |-> ""]

\* An error returned verbatim by a platform statistics provider.
PlatformErr(provider) == [type |-> "error", text |-> provider \o " failed"]

Abs(n) == IF n < 0 THEN -n ELSE n

Sgn(n) == IF n < 0 THEN -1 ELSE IF n > 0 THEN 1 ELSE 0

RECURSIVE GCD(_, _)
GCD(a, b) == IF b = 0 THEN a ELSE GCD(b, a % b)

\* The float64 n/d for integers n, d: lowest terms, sign in the numerator.
Quo(n, d) ==
    IF d = 0 THEN <<Sgn(n), 0>>
    ELSE LET g == GCD(Abs(n), Abs(d))
         IN  <<(Sgn(d) * n) \div g, Abs(d) \div g>>

\* float64 addition.
FAdd(x, y) ==
    IF x[2] = 0 /\ y[2] = 0
    THEN (IF x[1] = y[1] THEN x ELSE <<0, 0>>)
    ELSE IF x[2] = 0 THEN x
    ELSE IF y[2] = 0 THEN y
    ELSE Quo(x[1] * y[2] + y[1] * x[2], x[2] * y[2])

FZero == <<0, 1>>

----------------------------------------------------------------------------
(* Conversions to the package's float type *)

\* float(x) for a float64 x: the package's float is a floating-point type, and
\* the fractions of this model carry no precision to lose.
float(x) == x

\* float(n) for an unsigned integer n.
floatOfUint(n) == <<n, 1>>

----------------------------------------------------------------------------
(* The environment and what the platform providers can return *)

Unset == [set |-> FALSE, val |-> ""]

SetTo(s) == [set |-> TRUE, val |-> s]

\* os.Getenv: the value, or "" when the variable is unset.
Getenv(e, name) == IF e[name].set THEN e[name].val ELSE ""

Envs ==
    [HOST_PROC : {Unset, SetTo(""), SetTo("/prochost")},
     METRICS_NETWORK_INTERFACE : {Unset, SetTo("eth1")}]

Ok(v) == [v |-> v, err |-> NoErr]

\* A failed read: the zero value and the provider's error.
Failed(provider, zero) == [v |-> zero, err |-> PlatformErr(provider)]

\* cpu.CPUTimesStat; Other stands for the counters Total() adds and the
\* collector never reads by name (Nice, Irq, Softirq, Steal, Guest, GuestNice).
CPUSamples ==
    {c \in [User : 0..MaxTick, System : 0..MaxTick, Idle : 0..MaxTick,
            Stolen : 0..MaxTick, Iowait : 0..MaxTick, Other : 0..MaxTick] :
        c.User + c.System + c.Idle + c.Stolen + c.Iowait + c.Other <= MaxTotal}

IfNames == {"eth0", "eth1"}

NetIfaces == [Name : IfNames, BytesRecv : 0..MaxBytes, BytesSent : 0..MaxBytes]

\* net.NetIOCounters(true): one entry per interface of the host.
NetStats ==
    {<<>>} \cup {<<a>> : a \in NetIfaces}
           \cup {p \in NetIfaces \X NetIfaces : p[1].Name # p[2].Name}

LoadAvgReads ==
    {Ok([Load1 |-> <<1, 1>>, Load5 |-> <<1, 2>>, Load15 |-> <<1, 4>>]), Failed("load.LoadAvg", Nil)}

VirtualMemoryReads ==
    {Ok([Total |-> 8, Used |-> 5, Free |-> 3]), Failed("mem.VirtualMemory", Nil)}

SwapMemoryReads ==
    {Ok([Total |-> 2, Used |-> 0, Free |-> 2]), Failed("mem.SwapMemory", Nil)}

DiskUsageReads ==
    {Ok([Total |-> 9, Used |-> 4, Free |-> 5]), Failed("disk.DiskUsage", Nil)}

UptimeReads == {Ok(7), Failed("host.Uptime", 0)}

\* cpu.CPUTimes(false): a one-element slice holding the aggregated counters.
CPUTimesReads == {Ok(<<c>>) : c \in CPUSamples} \cup {Failed("cpu.CPUTimes", <<>>)}

NetIOCountersReads == {Ok(n) : n \in NetStats} \cup {Failed("net.NetIOCounters", <<>>)}

HostInfoReads == {Ok([Hostname |-> "host1"]), Failed("host.HostInfo", Nil)}

----------------------------------------------------------------------------
(* bslog *)

printf(l, level, msg) == Append(l, "[" \o level \o "] " \o msg)

Warnf(l, msg) == printf(l, "WARNING", msg)

----------------------------------------------------------------------------
(* HostClient *)

NilMap == <<>>

errInterfaceNotFound(name) ==
    [type |-> "errInterfaceNotFound", text |-> "interface " \o name \o " not found"]

\* config.StringEnvOrDefault(def, name)
StringEnvOrDefault(e, def, name) ==
    IF Getenv(e, name) # "" THEN Getenv(e, name) ELSE def

\* Faulty variant of NewHostClientResult: the HOST_PROC check is missing.
NewHostClientResultUnchecked(e) ==
    [h |-> [ifaceName |-> StringEnvOrDefault(e, "eth0", "METRICS_NETWORK_INTERFACE"),
            lastCPUStats |-> Nil],
     err |-> NoErr]

\* The pair NewHostClient returns for environment e.
NewHostClientResult(e) ==
    IF Getenv(e, "HOST_PROC") = ""
    THEN [h |-> Nil,
          err |-> [type |-> "error",
                   text |-> "HOST_PROC must be set to be able to send host metrics"]]
    ELSE [h |-> [ifaceName |-> StringEnvOrDefault(e, "eth0", "METRICS_NETWORK_INTERFACE"),
                 lastCPUStats |-> Nil],
          err |-> NoErr]

getHostLoad(rd) ==
    IF rd.err # NoErr THEN [metric |-> NilMap, err |-> rd.err]
    ELSE [metric |-> [load1 |-> float(rd.v.Load1),
                      load5 |-> float(rd.v.Load5),
                      load15 |-> float(rd.v.Load15)],
          err |-> NoErr]

getHostMem(rd) ==
    IF rd.err # NoErr THEN [metric |-> NilMap, err |-> rd.err]
    ELSE [metric |-> [mem_total |-> floatOfUint(rd.v.Total),
                      mem_used |-> floatOfUint(rd.v.Used),
                      mem_free |-> floatOfUint(rd.v.Free)],
          err |-> NoErr]

getHostSwap(rd) ==
    IF rd.err # NoErr THEN [metric |-> NilMap, err |-> rd.err]
    ELSE [metric |-> [swap_total |-> floatOfUint(rd.v.Total),
                      swap_used |-> floatOfUint(rd.v.Used),
                      swap_free |-> floatOfUint(rd.v.Free)],
          err |-> NoErr]

getHostFileSystemUsage(rd) ==
    IF rd.err # NoErr THEN [metric |-> NilMap, err |-> rd.err]
    ELSE [metric |-> [disk_total |-> floatOfUint(rd.v.Total),
                      disk_used |-> floatOfUint(rd.v.Used),
                      disk_free |-> floatOfUint(rd.v.Free)],
          err |-> NoErr]

getHostUptime(rd) ==
    IF rd.err # NoErr THEN [metric |-> NilMap, err |-> rd.err]
    ELSE [metric |-> [uptime |-> floatOfUint(rd.v)], err |-> NoErr]

\* cpu.CPUTimesStat.Total()
Total(c) == c.User + c.System + c.Idle + c.Stolen + c.Iowait + c.Other

\* Faulty variant of calculateCpuPercent: without a previous sample it reports the
\* shares since boot instead of zeros.
calculateCpuPercentSinceBoot(hh, currentCpuStats) ==
    LET zero == [User |-> 0, System |-> 0, Idle |-> 0, Stolen |-> 0, Iowait |-> 0, Other |-> 0]
        last == IF hh.lastCPUStats # Nil THEN hh.lastCPUStats ELSE zero
        deltaTotal == Total(currentCpuStats) - Total(last)
        user == Quo(currentCpuStats.User - last.User, deltaTotal)
        sys == Quo(currentCpuStats.System - last.System, deltaTotal)
        idle == Quo(currentCpuStats.Idle - last.Idle, deltaTotal)
        stolen == Quo(currentCpuStats.Stolen - last.Stolen, deltaTotal)
        wait == Quo(currentCpuStats.Iowait - last.Iowait, deltaTotal)
    IN  [cpu_user |-> float(user),
         cpu_sys |-> float(sys),
         cpu_idle |-> float(idle),
         cpu_stolen |-> float(stolen),
         cpu_wait |-> float(wait),
         cpu_busy |-> float(FAdd(user, sys))]

calculateCpuPercent(hh, currentCpuStats) ==
    LET last == hh.lastCPUStats
        deltaTotal == Total(currentCpuStats) - Total(last)
        user == IF last # Nil
                THEN Quo(currentCpuStats.User - last.User, deltaTotal) ELSE FZero
        sys == IF last # Nil
               THEN Quo(currentCpuStats.System - last.System, deltaTotal) ELSE FZero
        idle == IF last # Nil
                THEN Quo(currentCpuStats.Idle - last.Idle, deltaTotal) ELSE FZero
        stolen == IF last # Nil
                  THEN Quo(currentCpuStats.Stolen - last.Stolen, deltaTotal) ELSE FZero
        wait == IF last # Nil
                THEN Quo(currentCpuStats.Iowait - last.Iowait, deltaTotal) ELSE FZero
    IN  [cpu_user |-> float(user),
         cpu_sys |-> float(sys),
         cpu_idle |-> float(idle),
         cpu_stolen |-> float(stolen),
         cpu_wait |-> float(wait),
         cpu_busy |-> float(FAdd(user, sys))]

\* Faulty variant of getHostCpuTimes: the sample is retained only when none is yet.
getHostCpuTimesKeepsFirst(hh, rd) ==
    IF rd.err # NoErr THEN [metric |-> NilMap, err |-> rd.err, h |-> hh, assigned |-> 0]
    ELSE [metric |-> calculateCpuPercent(hh, rd.v[1]),
          err |-> NoErr,
          h |-> IF hh.lastCPUStats = Nil THEN [hh EXCEPT !.lastCPUStats = rd.v[1]] ELSE hh,
          assigned |-> IF hh.lastCPUStats = Nil THEN 1 ELSE 0]

\* Faulty variant of getHostCpuTimes: the sample is not retained when the total did
\* not move since the retained one.
getHostCpuTimesSkipsDegenerate(hh, rd) ==
    LET skip == hh.lastCPUStats # Nil /\ Total(rd.v[1]) = Total(hh.lastCPUStats)
    IN  IF rd.err # NoErr THEN [metric |-> NilMap, err |-> rd.err, h |-> hh, assigned |-> 0]
        ELSE [metric |-> calculateCpuPercent(hh, rd.v[1]),
              err |-> NoErr,
              h |-> IF skip THEN hh ELSE [hh EXCEPT !.lastCPUStats = rd.v[1]],
              assigned |-> IF skip THEN 0 ELSE 1]

\* Faulty variant of getHostCpuTimes: the sample is assigned before the computation
\* and again after it.
getHostCpuTimesAssignsTwice(hh, rd) ==
    IF rd.err # NoErr THEN [metric |-> NilMap, err |-> rd.err, h |-> hh, assigned |-> 0]
    ELSE [metric |-> calculateCpuPercent([hh EXCEPT !.lastCPUStats = rd.v[1]], rd.v[1]),
          err |-> NoErr,
          h |-> [hh EXCEPT !.lastCPUStats = rd.v[1]],
          assigned |-> 2]

\* Faulty variant of getHostCpuTimes: a failed read drops the retained sample.
getHostCpuTimesClearsOnError(hh, rd) ==
    IF rd.err # NoErr
    THEN [metric |-> NilMap, err |-> rd.err, h |-> [hh EXCEPT !.lastCPUStats = Nil],
          assigned |-> 1]
    ELSE [metric |-> calculateCpuPercent(hh, rd.v[1]),
          err |-> NoErr,
          h |-> [hh EXCEPT !.lastCPUStats = rd.v[1]],
          assigned |-> 1]

\* getHostCpuTimes on collector hh: the returned pair, the collector afterwards
\* and the number of assignments to h.lastCPUStats it executed.
getHostCpuTimes(hh, rd) ==
    IF rd.err # NoErr THEN [metric |-> NilMap, err |-> rd.err, h |-> hh, assigned |-> 0]
    ELSE [metric |-> calculateCpuPercent(hh, rd.v[1]),
          err |-> NoErr,
          h |-> [hh EXCEPT !.lastCPUStats = rd.v[1]],
          assigned |-> 1]

\* The range loop of getHostNetworkUsage from position k on.
RECURSIVE scan(_, _, _)
scan(hh, netStat, k) ==
    IF k > Len(netStat) THEN [metric |-> NilMap, err |-> errInterfaceNotFound(hh.ifaceName)]
    ELSE IF netStat[k].Name = hh.ifaceName
    THEN [metric |-> [netrx |-> floatOfUint(netStat[k].BytesRecv),
                      nettx |-> floatOfUint(netStat[k].BytesSent)],
          err |-> NoErr]
    ELSE scan(hh, netStat, k + 1)

getHostNetworkUsage(hh, rd) ==
    IF rd.err # NoErr THEN [metric |-> NilMap, err |-> rd.err]
    ELSE scan(hh, rd.v, 1)

GetHostnameResult(rd) ==
    IF rd.err # NoErr THEN [name |-> "", err |-> rd.err]
    ELSE [name |-> rd.v.Hostname, err |-> NoErr]

\* Faulty variant of collectors: the network collector is listed before the CPU one.
collectorsNetworkBeforeCpu ==
    <<"getHostLoad", "getHostMem", "getHostSwap", "getHostFileSystemUsage",
      "getHostUptime", "getHostNetworkUsage", "getHostCpuTimes">>

\* The slice collectors of GetHostMetrics.
collectors ==
    <<"getHostLoad", "getHostMem", "getHostSwap", "getHostFileSystemUsage",
      "getHostUptime", "getHostCpuTimes", "getHostNetworkUsage">>

\* What the platform provider behind a collector can return.
Reads(name) ==
    CASE name = "getHostLoad" -> LoadAvgReads
      [] name = "getHostMem" -> VirtualMemoryReads
      [] name = "getHostSwap" -> SwapMemoryReads
      [] name = "getHostFileSystemUsage" -> DiskUsageReads
      [] name = "getHostUptime" -> UptimeReads
      [] name = "getHostCpuTimes" -> CPUTimesReads
      [] name = "getHostNetworkUsage" -> NetIOCountersReads

\* collector() for the entry of collectors called name: the returned pair, the
\* collector afterwards and the assignments to h.lastCPUStats executed.
Invoke(name, hh, rd) ==
    LET keep(r) == [metric |-> r.metric, err |-> r.err, h |-> hh, assigned |-> 0]
    IN  CASE name = "getHostLoad" -> keep(getHostLoad(rd))
          [] name = "getHostMem" -> keep(getHostMem(rd))
          [] name = "getHostSwap" -> keep(getHostSwap(rd))
          [] name = "getHostFileSystemUsage" -> keep(getHostFileSystemUsage(rd))
          [] name = "getHostUptime" -> keep(getHostUptime(rd))
          [] name = "getHostCpuTimes" -> getHostCpuTimes(hh, rd)
          [] name = "getHostNetworkUsage" -> keep(getHostNetworkUsage(hh, rd))

\* The type assertion err.(errInterfaceNotFound).
IsErrInterfaceNotFound(e) == e.type = "errInterfaceNotFound"

----------------------------------------------------------------------------
(* The state machine *)

NoRet == [op |-> "none"]

NoCall == [made |-> FALSE]

Init ==
    /\ env \in Envs
    /\ h = Nil
    /\ newErr = NoErr
    /\ pc = "start"
    /\ i = 0
    /\ metrics = <<>>
    /\ ret = NoRet
    /\ log = <<>>
    /\ trace = <<>>
    /\ listed = {}
    /\ writes = 0
    /\ lastRead = Nil
    /\ call = NoCall
    /\ op = "start"

\* NewHostClient() at process startup.
NewHostClient ==
    /\ pc = "start"
    /\ LET r == NewHostClientResult(env)
       IN  /\ h' = r.h
           /\ newErr' = r.err
           /\ pc' = IF r.err = NoErr THEN "idle" ELSE "failed"
    /\ op' = "NewHostClient"
    /\ UNCHANGED <<env, i, metrics, ret, log, trace, listed, writes, lastRead, call>>

\* What invoking the collector called name leaves in the history variables.
Observe(name, rd, r) ==
    /\ trace' = Append(trace, [name |-> name, ok |-> rd.err = NoErr,
                                metric |-> r.metric, err |-> r.err])
    /\ listed' = IF name = "getHostNetworkUsage"
                 THEN {rd.v[n].Name : n \in 1..Len(rd.v)} ELSE listed
    /\ writes' = writes + r.assigned
    /\ lastRead' = IF name = "getHostCpuTimes" /\ rd.err = NoErr THEN rd.v[1] ELSE lastRead
    /\ call' = IF name = "getHostCpuTimes"
               THEN [made |-> TRUE, prevRead |-> lastRead, rd |-> rd,
                     metric |-> r.metric, err |-> r.err]
               ELSE call

\* Faulty variant of LoopBody: an aborting cycle returns the metrics gathered so far.
LoopBodyReturnsPartial(m, l, metric, err) ==
    IF err # NoErr
    THEN IF IsErrInterfaceNotFound(err)
         THEN [returns |-> FALSE, metrics |-> m,
               log |-> Warnf(l, "Skipping network metrics: " \o err.text), ret |-> NoRet]
         ELSE [returns |-> TRUE, metrics |-> m, log |-> l,
               ret |-> [op |-> "GetHostMetrics", metrics |-> m, err |-> err]]
    ELSE [returns |-> FALSE, metrics |-> Append(m, metric), log |-> l, ret |-> NoRet]

\* Faulty variant of LoopBody: the skip lacks its continue, so the nil mapping is appended.
LoopBodyAppendsOnSkip(m, l, metric, err) ==
    IF err # NoErr /\ ~IsErrInterfaceNotFound(err)
    THEN [returns |-> TRUE, metrics |-> m, log |-> l,
          ret |-> [op |-> "GetHostMetrics", metrics |-> <<>>, err |-> err]]
    ELSE [returns |-> FALSE, metrics |-> Append(m, metric),
          log |-> IF err # NoErr
                  THEN Warnf(l, "Skipping network metrics: " \o err.text) ELSE l,
          ret |-> NoRet]

\* Lines 58-65: what the loop body does with the pair (metric, err) a collector
\* returned, metrics and the log being m and l: whether GetHostMetrics returns
\* here and what, and otherwise metrics and the log as the next iteration finds them.
LoopBody(m, l, metric, err) ==
    IF err # NoErr
    THEN IF IsErrInterfaceNotFound(err)
         THEN [returns |-> FALSE, metrics |-> m,
               log |-> Warnf(l, "Skipping network metrics: " \o err.text), ret |-> NoRet]
         ELSE [returns |-> TRUE, metrics |-> m, log |-> l,
               ret |-> [op |-> "GetHostMetrics", metrics |-> <<>>, err |-> err]]
    ELSE [returns |-> FALSE, metrics |-> Append(m, metric), log |-> l, ret |-> NoRet]

\* h.GetHostMetrics() is called: the locals of lines 46-55.
GetHostMetricsCall ==
    /\ pc = "idle"
    /\ pc' = "GetHostMetrics"
    /\ i' = 1
    /\ metrics' = <<>>
    /\ ret' = NoRet
    /\ log' = <<>>
    /\ trace' = <<>>
    /\ listed' = {}
    /\ writes' = 0
    /\ call' = NoCall
    /\ op' = "GetHostMetrics"
    /\ UNCHANGED <<env, h, newErr, lastRead>>

\* One iteration of the loop of lines 56-66.
GetHostMetricsLoop ==
    /\ pc = "GetHostMetrics"
    /\ i <= Len(collectors)
    /\ \E rd \in Reads(collectors[i]) :
         LET r == Invoke(collectors[i], h, rd)
             b == LoopBody(metrics, log, r.metric, r.err)
         IN  /\ h' = r.h
             /\ Observe(collectors[i], rd, r)
             /\ log' = b.log
             /\ IF b.returns
                THEN /\ ret' = b.ret
                     /\ pc' = "idle"
                     /\ i' = 0
                     /\ metrics' = <<>>
                ELSE /\ metrics' = b.metrics
                     /\ i' = i + 1
                     /\ UNCHANGED <<pc, ret>>
    /\ op' = collectors[i]
    /\ UNCHANGED <<env, newErr>>

\* The loop is over: return metrics, nil (line 67).
GetHostMetricsReturn ==
    /\ pc = "GetHostMetrics"
    /\ i > Len(collectors)
    /\ ret' = [op |-> "GetHostMetrics", metrics |-> metrics, err |-> NoErr]
    /\ pc' = "idle"
    /\ i' = 0
    /\ metrics' = <<>>
    /\ op' = "return"
    /\ UNCHANGED <<env, h, newErr, log, trace, listed, writes, lastRead, call>>

\* h.GetHostname()
GetHostname ==
    /\ pc = "idle"
    /\ \E rd \in HostInfoReads :
         LET r == GetHostnameResult(rd)
         IN  ret' = [op |-> "GetHostname", name |-> r.name, err |-> r.err]
    /\ log' = <<>>
    /\ trace' = <<>>
    /\ listed' = {}
    /\ writes' = 0
    /\ call' = NoCall
    /\ op' = "GetHostname"
    /\ UNCHANGED <<env, h, newErr, pc, i, metrics, lastRead>>

Next ==
    \/ NewHostClient
    \/ GetHostMetricsCall
    \/ GetHostMetricsLoop
    \/ GetHostMetricsReturn
    \/ GetHostname

Spec == Init /\ [][Next]_vars

----------------------------------------------------------------------------
(* Properties *)

\* The last getHostCpuTimes invocation of the current call read the platform
\* counters without error.
CpuReadOk == call.made /\ call.rd.err = NoErr

\* The sample that invocation read.
Current == call.rd.v[1]

\* It found an earlier successfully read sample.
HadPrevious == CpuReadOk /\ call.prevRead # Nil

DeltaTotal == Total(Current) - Total(call.prevRead)

IsNaN(x) == x = <<0, 0>>

IsInf(x) == x[2] = 0 /\ x[1] # 0

CpuKeys == {"cpu_user", "cpu_sys", "cpu_idle", "cpu_stolen", "cpu_wait", "cpu_busy"}

\* x is the finite fraction n/d.
IsFraction(x, n, d) == x[2] > 0 /\ x[1] * d = n * x[2]

\* A collection cycle has returned and nothing was called since.
CycleReturned == pc = "idle" /\ ret.op = "GetHostMetrics"

\* C1: when a previous sample is retained and current.total - previous.total
\* is not positive, all six CPU outputs are 0, and none is NaN or infinite.
C1_DegenerateDeltaIsZero ==
    (HadPrevious /\ DeltaTotal <= 0) =>
        /\ DOMAIN call.metric = CpuKeys
        /\ \A k \in CpuKeys :
             /\ ~IsNaN(call.metric[k])
             /\ ~IsInf(call.metric[k])
             /\ IsFraction(call.metric[k], 0, 1)

\* C2: the first successful CPU read of a collector returns the six CPU keys,
\* each exactly 0, whatever the sample read.
C2_ColdStartAllZero ==
    (CpuReadOk /\ call.prevRead = Nil) =>
        /\ call.err = NoErr
        /\ DOMAIN call.metric = CpuKeys
        /\ \A k \in CpuKeys : call.metric[k] = <<0, 1>>

C2_Witness ==
    /\ CpuReadOk
    /\ call.prevRead = Nil
    /\ Current.User > 0
    /\ Current.Idle > 0

\* C3: with a previous sample and deltaTotal > 0, each of cpu_user, cpu_sys,
\* cpu_idle, cpu_stolen, cpu_wait is the delta of its own category over
\* deltaTotal, cpu_busy is cpu_user + cpu_sys, and the previous sample is the
\* one read by the immediately preceding successful CPU read.
C3_DeltaCorrect ==
    (HadPrevious /\ DeltaTotal > 0) =>
        LET m == call.metric
            prev == call.prevRead
        IN  /\ call.err = NoErr
            /\ DOMAIN m = CpuKeys
            /\ IsFraction(m.cpu_user, Current.User - prev.User, DeltaTotal)
            /\ IsFraction(m.cpu_sys, Current.System - prev.System, DeltaTotal)
            /\ IsFraction(m.cpu_idle, Current.Idle - prev.Idle, DeltaTotal)
            /\ IsFraction(m.cpu_stolen, Current.Stolen - prev.Stolen, DeltaTotal)
            /\ IsFraction(m.cpu_wait, Current.Iowait - prev.Iowait, DeltaTotal)
            /\ IsFraction(m.cpu_busy,
                          m.cpu_user[1] * m.cpu_sys[2] + m.cpu_sys[1] * m.cpu_user[2],
                          m.cpu_user[2] * m.cpu_sys[2])

C3_Witness ==
    /\ HadPrevious
    /\ DeltaTotal = 2
    /\ Current.User > call.prevRead.User
    /\ Current.System > call.prevRead.System
    /\ call.metric.cpu_user = <<1, 2>>
    /\ call.metric.cpu_busy = <<1, 1>>

\* C4: after a CPU producer call whose platform read succeeds the retained
\* sample is the sample just read, with or without a prior sample, degenerate
\* delta or not, and whatever the rest of the cycle does.
C4_RetainedIsJustRead ==
    CpuReadOk => h.lastCPUStats = Current

C4_Witness ==
    /\ CycleReturned
    /\ ret.err # NoErr
    /\ HadPrevious
    /\ DeltaTotal = 0
    /\ Current # call.prevRead

\* C5: a producer error other than interface-not-found stops the cycle at that
\* producer, and the cycle returns that same error and no metrics at all.
C5_FailFast ==
    \A k \in 1..Len(trace) :
        (trace[k].err # NoErr /\ ~IsErrInterfaceNotFound(trace[k].err)) =>
            /\ k = Len(trace)
            /\ pc = "idle"
            /\ ret = [op |-> "GetHostMetrics", metrics |-> <<>>, err |-> trace[k].err]

C5_Witness ==
    /\ CycleReturned
    /\ Len(trace) = 2
    /\ trace[1].err = NoErr
    /\ trace[2].err = PlatformErr("mem.VirtualMemory")

\* The network read succeeded and listed no interface with the configured name.
NoInterfaceMatches(e) ==
    /\ e.name = "getHostNetworkUsage"
    /\ e.ok
    /\ h.ifaceName \notin listed

\* C6: when every other producer succeeds and no interface has the configured
\* name, the cycle returns no error, the output has no network entry and no
\* placeholder, and exactly one warning is logged in the cycle.
C6_InterfaceSkip ==
    /\ (/\ CycleReturned
        /\ Len(trace) = 7
        /\ \A k \in 1..6 : trace[k].err = NoErr
        /\ NoInterfaceMatches(trace[7])) =>
           /\ ret.err = NoErr
           /\ Len(ret.metrics) = 6
           /\ \A k \in 1..Len(ret.metrics) :
                /\ ret.metrics[k] # NilMap
                /\ DOMAIN ret.metrics[k] \cap {"netrx", "nettx"} = {}
           /\ log = <<"[WARNING] Skipping network metrics: interface "
                        \o h.ifaceName \o " not found">>
    /\ ret.op = "GetHostMetrics" => ~IsErrInterfaceNotFound(ret.err)

C6_Witness ==
    /\ CycleReturned
    /\ Len(trace) = 7
    /\ ret.err = NoErr
    /\ NoInterfaceMatches(trace[7])
    /\ listed = {"eth1"}

\* The key sets of the seven producers, in the documented order.
KeysInOrder ==
    <<{"load1", "load5", "load15"},
      {"mem_total", "mem_used", "mem_free"},
      {"swap_total", "swap_used", "swap_free"},
      {"disk_total", "disk_used", "disk_free"},
      {"uptime"},
      CpuKeys,
      {"netrx", "nettx"}>>

\* C7: a successful cycle returns one mapping per producer that succeeded, in
\* the order load, memory, swap, filesystem, uptime, CPU, network: all seven,
\* or the first six when the interface is not found.
C7_OutputOrder ==
    (CycleReturned /\ ret.err = NoErr) =>
        /\ Len(trace) = 7
        /\ Len(ret.metrics) = IF trace[7].err = NoErr THEN 7 ELSE 6
        /\ IsErrInterfaceNotFound(trace[7].err) <=> Len(ret.metrics) = 6
        /\ \A k \in 1..Len(ret.metrics) :
             /\ DOMAIN ret.metrics[k] = KeysInOrder[k]
             /\ ret.metrics[k] = trace[k].metric

C7_Witness ==
    /\ CycleReturned
    /\ ret.err = NoErr
    /\ Len(ret.metrics) = 7
    /\ HadPrevious

\* C8: construction fails and returns no collector when HOST_PROC is unset or
\* empty; otherwise it returns a collector with no retained sample whose
\* interface name is the configured one, or eth0 when none is configured.
C8_Construction ==
    (pc # "start") =>
        IF ~env.HOST_PROC.set \/ env.HOST_PROC.val = ""
        THEN h = Nil /\ newErr # NoErr /\ pc = "failed"
        ELSE /\ newErr = NoErr
             /\ h # Nil
             /\ h.ifaceName = IF env.METRICS_NETWORK_INTERFACE.set
                              THEN env.METRICS_NETWORK_INTERFACE.val ELSE "eth0"
             /\ (op = "NewHostClient" => h.lastCPUStats = Nil)

C8_Witness ==
    /\ op = "NewHostClient"
    /\ env.HOST_PROC = SetTo("")
    /\ h = Nil

\* The CPU producer ran in the current cycle and its platform read succeeded.
CpuProducerSucceeded ==
    \E k \in 1..Len(trace) : trace[k].name = "getHostCpuTimes" /\ trace[k].ok

\* C9 as stated: every collection cycle, whether it succeeds, skips the network
\* producer or aborts, assigns the retained sample exactly once.
C9_ExactlyOncePerCycle ==
    CycleReturned => writes = 1

\* C9 amended: a cycle assigns the retained sample at most once, and exactly
\* once when it reaches the CPU producer and the platform read succeeds; a
\* cycle that aborts before that assigns it not at all.
C9_OncePerSuccessfulCpuRead ==
    /\ writes = IF CpuProducerSucceeded THEN 1 ELSE 0
    /\ (CycleReturned /\ ret.err = NoErr) => writes = 1

C9_Witness ==
    /\ CycleReturned
    /\ ret.err = PlatformErr("net.NetIOCounters")
    /\ writes = 1

\* C10: the retained sample appears only on a successful CPU read, is never
\* cleared, changes only to the sample a successful CPU read just returned,
\* and the interface name never changes after construction.
C10_Frame ==
    [][h # Nil =>
        /\ h' # Nil
        /\ h'.ifaceName = h.ifaceName
        /\ (h.lastCPUStats # Nil => h'.lastCPUStats # Nil)
        /\ (h'.lastCPUStats # h.lastCPUStats =>
                /\ op' = "getHostCpuTimes"
                /\ call'.rd.err = NoErr
                /\ h'.lastCPUStats = call'.rd.v[1])]_vars

C10_Witness ==
    /\ call.made
    /\ call.rd.err # NoErr
    /\ call.prevRead # Nil
    /\ h.lastCPUStats = call.prevRead

====
